---- MODULE Spec2Model ----
(***************************************************************************)
(* Model of tools/generate_from_csv.py: the CSV-to-hub/ generator.         *)
(*                                                                         *)
(* A Python str is a sequence of one-character strings; a character that   *)
(* is not ASCII is written by its code point ("U+212A").  None is a value  *)
(* distinct from every str.  A row is the dict csv.DictReader builds: a    *)
(* function from column name to value.  The filesystem under hub/ is the   *)
(* record fs: the files (path -> content) and the directories.             *)
(***************************************************************************)
EXTENDS Integers, Sequences, FiniteSets, TLC

\* ----------------------------------------------------------------- bounds
\* The longest CSV (data lines) and the longest slugify argument explored.
MaxRows == 2
MaxLen == 3

\* ------------------------------------------------------------- characters
None == <<"None">>

Range(f) == {f[k] : k \in DOMAIN f}

Min(a, b) == IF a < b THEN a ELSE b

LowerLetters == <<"a", "b", "c", "d", "e", "f", "g", "h", "i", "j", "k", "l", "m",
                  "n", "o", "p", "q", "r", "s", "t", "u", "v", "w", "x", "y", "z">>

UpperLetters == <<"A", "B", "C", "D", "E", "F", "G", "H", "I", "J", "K", "L", "M",
                  "N", "O", "P", "Q", "R", "S", "T", "U", "V", "W", "X", "Y", "Z">>

Digits == {"0", "1", "2", "3", "4", "5", "6", "7", "8", "9"}

\* What str.strip() with no argument removes (the ones the model's inputs use).
Whitespace == {" ", "\t", "\n"}

\* The class [a-z0-9] of the regular expression in slugify.
SlugChars == Range(LowerLetters) \cup Digits

\* str.lower() of one character.  It is Unicode's mapping, not ASCII's:
\* KELVIN SIGN (U+212A) lowers to "k", and LATIN CAPITAL LETTER I WITH DOT
\* ABOVE (U+0130) lowers to "i" followed by COMBINING DOT ABOVE (U+0307).
LowerChar(c) ==
    IF c \in Range(UpperLetters)
    THEN <<LowerLetters[CHOOSE k \in DOMAIN UpperLetters : UpperLetters[k] = c]>>
    ELSE IF c = "U+212A" THEN <<"k">>
    ELSE IF c = "U+0130" THEN <<"i", "U+0307">>
    ELSE <<c>>

RECURSIVE lower(_)
lower(s) == IF s = <<>> THEN <<>> ELSE LowerChar(Head(s)) \o lower(Tail(s))

RECURSIVE lstrip(_, _)
lstrip(s, chars) ==
    IF s # <<>> /\ Head(s) \in chars THEN lstrip(Tail(s), chars) ELSE s

RECURSIVE rstrip(_, _)
rstrip(s, chars) ==
    IF s # <<>> /\ s[Len(s)] \in chars
    THEN rstrip(SubSeq(s, 1, Len(s) - 1), chars)
    ELSE s

strip(s, chars) == rstrip(lstrip(s, chars), chars)

startswith(s, prefix) ==
    Len(s) >= Len(prefix) /\ SubSeq(s, 1, Len(prefix)) = prefix

\* ------------------------------------------------------ literals of the code
unknown == <<"u", "n", "k", "n", "o", "w", "n">>
focus_prefix == <<"f", "o", "c", "u", "s", "_">>
cer_prefix == <<"C", "E", "R", "-">>

k_cer_id == <<"c", "e", "r", "_", "i", "d">>
k_cloud_provider == <<"c", "l", "o", "u", "d", "_", "p", "r", "o", "v", "i", "d", "e", "r">>
k_focus_category == <<"f", "o", "c", "u", "s", "_", "c", "a", "t", "e", "g", "o", "r", "y">>
k_service == <<"s", "e", "r", "v", "i", "c", "e">>
k_title == <<"t", "i", "t", "l", "e">>
k_summary == <<"s", "u", "m", "m", "a", "r", "y">>
k_severity == <<"s", "e", "v", "e", "r", "i", "t", "y">>
k_status == <<"s", "t", "a", "t", "u", "s">>
k_why == <<"w", "h", "y">>
k_signals == <<"s", "i", "g", "n", "a", "l", "s">>
k_recommended_action == <<"r", "e", "c", "o", "m", "m", "e", "n", "d", "e", "d", "_",
                          "a", "c", "t", "i", "o", "n">>

REQUIRED_COLS == <<k_cer_id, k_cloud_provider, k_focus_category, k_service, k_title>>

\* ------------------------------------------------------------ pure functions
\* norm: (s or "").strip()
norm(s) == strip(IF s = None THEN <<>> ELSE s, Whitespace)

\* re.sub(r"[^a-z0-9]+", "_", s): every maximal run of characters outside
\* [a-z0-9] becomes one underscore.
RECURSIVE sub_runs(_)
sub_runs(s) ==
    IF s = <<>> THEN <<>>
    ELSE IF Head(s) \in SlugChars THEN <<Head(s)>> \o sub_runs(Tail(s))
    ELSE <<"_">> \o sub_runs(lstrip(Tail(s), Range(s) \ SlugChars))

\* A slugify that forgets .strip("_").
slugify_nostrip(s) ==
    LET t == sub_runs(lower(norm(s))) IN IF t = <<>> THEN unknown ELSE t

slugify(s) ==
    LET t == strip(sub_runs(lower(norm(s))), {"_"}) IN IF t = <<>> THEN unknown ELSE t

\* re.match(r"^CER-\d{6}$", cer): "$" also matches before one final newline.
match_cer_core(s) ==
    /\ Len(s) = 10
    /\ SubSeq(s, 1, 4) = cer_prefix
    /\ \A k \in 5..10 : s[k] \in Digits

match_cer(s) ==
    \/ match_cer_core(s)
    \/ Len(s) = 11 /\ s[11] = "\n" /\ match_cer_core(SubSeq(s, 1, 10))

\* row.get(c, default)
Get(row, c, default) == IF c \in DOMAIN row THEN row[c] ELSE default

\* The issue texts, kept as the pieces of their f-strings.
MissingIssue(i, c) == <<"Row ", i, ": missing required column '", c, "'">>
CerIssue(i, cer) == <<"Row ", i, ": cer_id should look like CER-000123 (got '", cer, "')">>
FocusIssue(i, fc) == <<"Row ", i, ": focus_category should start with 'focus_' (got '", fc, "')">>

\* A validate_row whose cer_id pattern lost its "$" anchor.
validate_row_unanchored(row, i) ==
    LET blank == SelectSeq(REQUIRED_COLS, LAMBDA c : norm(Get(row, c, <<>>)) = <<>>)
        cer == norm(Get(row, k_cer_id, <<>>))
        fc == norm(Get(row, k_focus_category, <<>>))
    IN  [k \in 1..Len(blank) |-> MissingIssue(i, blank[k])]
        \o (IF cer # <<>> /\ ~(Len(cer) >= 10 /\ match_cer_core(SubSeq(cer, 1, 10)))
            THEN <<CerIssue(i, cer)>> ELSE <<>>)
        \o (IF fc # <<>> /\ ~startswith(fc, focus_prefix)
            THEN <<FocusIssue(i, fc)>> ELSE <<>>)

validate_row(row, i) ==
    LET blank == SelectSeq(REQUIRED_COLS, LAMBDA c : norm(Get(row, c, <<>>)) = <<>>)
        cer == norm(Get(row, k_cer_id, <<>>))
        fc == norm(Get(row, k_focus_category, <<>>))
    IN  [k \in 1..Len(blank) |-> MissingIssue(i, blank[k])]
        \o (IF cer # <<>> /\ ~match_cer(cer) THEN <<CerIssue(i, cer)>> ELSE <<>>)
        \o (IF fc # <<>> /\ ~startswith(fc, focus_prefix)
            THEN <<FocusIssue(i, fc)>> ELSE <<>>)

\* ------------------------------------------------------------- the CSV file
\* csv.DictReader: the first line gives the fieldnames (None for an empty
\* file); every later line becomes a dict fieldname -> value, with None for
\* the fields a short line lacks and the surplus of a long line under the
\* key None.  A fieldname that occurs twice keeps its last value.
fieldnames(text) == IF text = <<>> THEN None ELSE text[1]

DictRow(fn, line) ==
    LET last(c) == CHOOSE k \in DOMAIN fn :
                       fn[k] = c /\ \A j \in DOMAIN fn : fn[j] = c => j <= k
        named == [c \in Range(fn) |->
                     IF last(c) <= Len(line) THEN line[last(c)] ELSE None]
    IN  IF Len(line) > Len(fn)
        THEN [c \in Range(fn) \cup {None} |->
                 IF c = None THEN SubSeq(line, Len(fn) + 1, Len(line)) ELSE named[c]]
        ELSE named

\* cols = [c.strip() for c in (reader.fieldnames or [])]
header_cols(fn) ==
    LET names == IF fn = None THEN <<>> ELSE fn
    IN  [k \in 1..Len(names) |-> strip(names[k], Whitespace)]

\* A header check that looks for the first required column only.
missing_cols_first(cols) ==
    IF REQUIRED_COLS[1] \in Range(cols) THEN <<>> ELSE <<REQUIRED_COLS[1]>>

\* missing_cols = [c for c in REQUIRED_COLS if c not in cols]
missing_cols(cols) == SelectSeq(REQUIRED_COLS, LAMBDA c : c \notin Range(cols))

\* list(reader)
read_rows(text) ==
    [k \in 1..(Len(text) - 1) |-> DictRow(fieldnames(text), text[k + 1])]

\* ---------------------------------------------------------- rendering a row
TBD == <<"T", "B", "D", ".">>
TBD_signals == <<"-", " ", "T", "B", "D">>
medium == <<"m", "e", "d", "i", "u", "m">>
draft == <<"d", "r", "a", "f", "t">>

\* norm(row.get(c, "")) or default
OrDefault(row, c, default) ==
    LET v == norm(Get(row, c, <<>>)) IN IF v = <<>> THEN default ELSE v

\* hub_root / provider / focus_category / service / cer_id
out_dir(row) ==
    <<"hub", slugify(row[k_cloud_provider]), slugify(row[k_focus_category]),
      slugify(row[k_service]), norm(row[k_cer_id])>>

meta_path(row) == Append(out_dir(row), "metadata.yaml")
md_path(row) == Append(out_dir(row), "inefficiency.md")

\* The metadata f-string: one "key: value\n" line per field.
metadata(row) ==
    << <<"cer_id: ", norm(row[k_cer_id])>>,
       <<"cloud_provider: ", slugify(row[k_cloud_provider])>>,
       <<"focus_category: ", slugify(row[k_focus_category])>>,
       <<"service: ", slugify(row[k_service])>>,
       <<"title: ", norm(row[k_title])>>,
       <<"severity: ", OrDefault(row, k_severity, medium)>>,
       <<"status: ", OrDefault(row, k_status, draft)>> >>

\* MD_TEMPLATE.format(...): the heading and the four sections.
md(row) ==
    << <<"# ", norm(row[k_title])>>,
       <<"## Summary", OrDefault(row, k_summary, TBD)>>,
       <<"## Why this matters", OrDefault(row, k_why, TBD)>>,
       <<"## Common signals", OrDefault(row, k_signals, TBD_signals)>>,
       <<"## Recommended action", OrDefault(row, k_recommended_action, TBD)>> >>

\* ----------------------------------------------------------- the filesystem
\* The ancestors path.parent.mkdir(parents=True, exist_ok=True) creates.
Parents(path) == {SubSeq(path, 1, k) : k \in 1..(Len(path) - 1)}

Put(files, path, content) ==
    [q \in DOMAIN files \cup {path} |-> IF q = path THEN content ELSE files[q]]

\* A write_file that never looks at the existing file.
write_file_always(f, path, content, ow) ==
    [files |-> Put(f.files, path, content), dirs |-> f.dirs \cup Parents(path),
     wrote |-> TRUE]

\* A write_file that keeps every existing file, whatever overwrite says.
write_file_never(f, path, content, ow) ==
    IF path \in DOMAIN f.files
    THEN [files |-> f.files, dirs |-> f.dirs \cup Parents(path), wrote |-> FALSE]
    ELSE [files |-> Put(f.files, path, content), dirs |-> f.dirs \cup Parents(path),
          wrote |-> TRUE]

\* A write_file that opens the file for appending and has no guard.
write_file_append(f, path, content, ow) ==
    [files |-> Put(f.files, path,
                   (IF path \in DOMAIN f.files THEN f.files[path] ELSE <<>>) \o content),
     dirs |-> f.dirs \cup Parents(path), wrote |-> TRUE]

\* A write_file whose guard reads "overwrite" where it should read "not overwrite".
write_file_flipped(f, path, content, ow) ==
    IF path \in DOMAIN f.files /\ ow
    THEN [files |-> f.files, dirs |-> f.dirs \cup Parents(path), wrote |-> FALSE]
    ELSE [files |-> Put(f.files, path, content), dirs |-> f.dirs \cup Parents(path),
          wrote |-> TRUE]

\* write_file: the filesystem after the call, and whether write_text ran.
write_file(f, path, content, ow) ==
    IF path \in DOMAIN f.files /\ ~ow
    THEN [files |-> f.files, dirs |-> f.dirs \cup Parents(path), wrote |-> FALSE]
    ELSE [files |-> Put(f.files, path, content), dirs |-> f.dirs \cup Parents(path),
          wrote |-> TRUE]

\* A gate that lets a single issue through.
has_issues_many(issues) == Len(issues) > 1

\* if all_issues:
has_issues(issues) == issues # <<>>

\* A dry run that overwrite switches off.
skip_writes_unless_overwrite(dry, ow) == dry /\ ~ow

\* if dry_run: ... continue
skip_writes(dry, ow) == dry

\* The numbering of data rows, enumerate(rows, start=2), and the cap on the
\* issues printed, all_issues[:200].
FirstRowNumber == 2
IssueCap == 200

\* ------------------------------------------------------------------ inputs
good_header == <<k_cer_id, k_cloud_provider, k_focus_category, k_service, k_title, k_summary>>

\* The same header without its title column.
short_header == <<k_cer_id, k_cloud_provider, k_focus_category, k_service, k_summary>>

\* The same header with a blank before cer_id, as "a, b" style CSVs have.
padded_header == <<<<" ">> \o k_cer_id, k_cloud_provider, k_focus_category, k_service,
                   k_title, k_summary>>

Headers == {good_header, short_header, padded_header}

cer_123 == <<"C", "E", "R", "-", "0", "0", "0", "1", "2", "3">>
cer_124 == <<"C", "E", "R", "-", "0", "0", "0", "1", "2", "4">>
focus_cost == <<"f", "o", "c", "u", "s", "_", "c", "o", "s", "t">>

\* The data lines a CSV is made of: two valid lines of one entry (they differ
\* in case, blanks and title), a valid short line of another entry, and lines
\* with a cer_id of five and of seven digits, a focus_category without its
\* prefix together with a blank title, a line of two fields, and a valid
\* line of seven fields for the entry of the short line.
Lines ==
    { <<cer_123, <<"A", "W", "S">>, focus_cost, <<"S", "3">>, <<"T", "1">>, <<>>>>,
      <<<<" ">> \o cer_123, <<"a", "w", "s", " ">>, <<" ">> \o focus_cost, <<"s", "3">>,
        <<"T", "2">>, <<"s">>>>,
      <<cer_124, <<"G", "-", "C">>, <<"f", "o", "c", "u", "s", "_", "x">>,
        <<"K", "8", "s">>, <<"T", "3">>>>,
      <<SubSeq(cer_123, 1, 9), <<"A", "W", "S">>, focus_cost, <<"S", "3">>, <<"T", "1">>, <<>>>>,
      <<cer_123 \o <<"4">>, <<"A", "W", "S">>, focus_cost, <<"S", "3">>, <<"T", "1">>, <<>>>>,
      <<cer_123, <<"A", "W", "S">>, <<"c", "o", "s", "t">>, <<"S", "3">>, <<" ", " ">>, <<>>>>,
      <<cer_124, <<"A", "W", "S">>>>,
      <<cer_124, <<"g", " ", "c">>, <<"f", "o", "c", "u", "s", "_", "x">>,
        <<"K", "8", "S">>, <<"T", "4">>, <<>>, <<"x">>>> }

SeqsUpTo(S, n) == UNION {[1..k -> S] : k \in 0..n}

\* The file: absent, empty, or a header and up to MaxRows data lines.
CsvTexts == {<<>>} \cup {<<h>> \o ls : h \in Headers, ls \in SeqsUpTo(Lines, MaxRows)}

\* What hub/ may hold before a run: nothing, an entry edited by hand, an entry
\* of which only the markdown is left, or two entries.
entry_a == <<"hub", <<"a", "w", "s">>, focus_cost, <<"s", "3">>, cer_123>>
entry_c == <<"hub", <<"g", "_", "c">>, <<"f", "o", "c", "u", "s", "_", "x">>,
             <<"k", "8", "s">>, cer_124>>
edited == << <<"# ", <<"m", "i", "n", "e">>>> >>

Tree(entries, names) ==
    [files |-> [p \in {Append(e, n) : e \in entries, n \in names} |-> edited],
     dirs |-> UNION {Parents(Append(e, "x")) : e \in entries}]

Trees ==
    { Tree({}, {}),
      Tree({entry_a}, {"metadata.yaml", "inefficiency.md"}),
      Tree({entry_a}, {"inefficiency.md"}),
      Tree({entry_a, entry_c}, {"metadata.yaml", "inefficiency.md"}) }

\* The arguments of slugify that are explored.
SlugAlphabet == {"a", "Z", "7", "_", "-", " ", "U+00E9", "U+212A", "U+0130"}
SlugInputs == {None} \cup SeqsUpTo(SlugAlphabet, MaxLen)

\* ------------------------------------------------------------------- state
VARIABLES
    csv_exists,   \* csv_file.exists()
    csv_text,     \* the lines of the CSV file, the header first
    overwrite,    \* --overwrite
    dry_run,      \* --dry-run
    fs,           \* hub/: [files, dirs]
    fs_start,     \* hub/ when the current run started
    run,          \* "first" or "second" run on the same CSV and flags
    pc,           \* where main is
    rows,         \* list(reader)
    all_issues,   \* main's all_issues
    idx,          \* position of the loop main is in (1-based)
    created,      \* main's created
    exit_code,    \* <<>> while main runs, <<n>> once it returned n
    stdout,       \* what main printed
    validated,    \* number of validate_row calls of the current run
    calls,        \* number of write_file calls of the current run
    written,      \* the paths write_text wrote in the current run, in order
    sl_in,        \* the argument of slugify
    sl_out,       \* its result
    sl_done       \* slugify has returned

vars == <<csv_exists, csv_text, overwrite, dry_run, fs, fs_start, run, pc, rows,
          all_issues, idx, created, exit_code, stdout, validated, calls,
          written, sl_in, sl_out, sl_done>>

inputs == <<csv_exists, csv_text, overwrite, dry_run>>
sl_vars == <<sl_in, sl_out, sl_done>>

Init ==
    /\ csv_exists \in BOOLEAN
    /\ csv_text \in CsvTexts
    /\ (~csv_exists => csv_text = <<>>)
    /\ overwrite \in BOOLEAN
    /\ dry_run \in BOOLEAN
    /\ fs \in Trees
    /\ fs_start = fs
    /\ run = "first"
    /\ pc = "start"
    /\ rows = <<>>
    /\ all_issues = <<>>
    /\ idx = 1
    /\ created = 0
    /\ exit_code = <<>>
    /\ stdout = <<>>
    /\ validated = 0
    /\ calls = 0
    /\ written = <<>>
    /\ sl_in = None
    /\ sl_out = <<>>
    /\ sl_done = FALSE

\* main, lines 58-61: the CSV file must exist.
Start ==
    /\ pc = "start"
    /\ IF ~csv_exists
       THEN /\ stdout' = Append(stdout, <<"CSV not found">>)
            /\ exit_code' = <<2>>
            /\ pc' = "done"
       ELSE /\ pc' = "read"
            /\ UNCHANGED <<stdout, exit_code>>
    /\ UNCHANGED <<inputs, fs, fs_start, run, rows, all_issues, idx, created,
                   validated, calls, written, sl_vars>>

\* main, lines 63-75: the header check, then list(reader).
ReadCsv ==
    /\ pc = "read"
    /\ LET cols == header_cols(fieldnames(csv_text))
           missing == missing_cols(cols)
       IN  IF missing # <<>>
           THEN /\ stdout' = stdout \o <<<<"CSV is missing required columns: ", missing>>,
                                         <<"   Found columns: ", cols>>>>
                /\ exit_code' = <<2>>
                /\ pc' = "done"
                /\ UNCHANGED <<rows, all_issues, idx>>
           ELSE /\ rows' = read_rows(csv_text)
                /\ all_issues' = <<>>
                /\ idx' = 1
                /\ pc' = "validate"
                /\ UNCHANGED <<stdout, exit_code>>
    /\ UNCHANGED <<inputs, fs, fs_start, run, created, validated, calls, written, sl_vars>>

\* main, lines 76-77: one turn of the validation loop.
ValidateRow ==
    /\ pc = "validate"
    /\ idx <= Len(rows)
    /\ all_issues' = all_issues \o validate_row(rows[idx], idx - 1 + FirstRowNumber)
    /\ idx' = idx + 1
    /\ validated' = validated + 1
    /\ UNCHANGED <<inputs, fs, fs_start, run, pc, rows, created, exit_code, stdout,
                   calls, written, sl_vars>>

\* main, lines 79-88: after the loop, the gate.
Gate ==
    /\ pc = "validate"
    /\ idx > Len(rows)
    /\ IF has_issues(all_issues)
       THEN /\ stdout' = stdout \o <<<<"Fix these CSV issues first:">>>>
                \o [k \in 1..Min(IssueCap, Len(all_issues)) |-> <<" -", all_issues[k]>>]
                \o (IF Len(all_issues) > IssueCap
                    THEN <<<<"... plus more", Len(all_issues) - IssueCap>>>>
                    ELSE <<>>)
            /\ exit_code' = <<1>>
            /\ pc' = "done"
            /\ UNCHANGED <<idx, created>>
       ELSE /\ created' = 0
            /\ idx' = 1
            /\ pc' = "rows"
            /\ UNCHANGED <<stdout, exit_code>>
    /\ UNCHANGED <<inputs, fs, fs_start, run, rows, all_issues, validated, calls, written, sl_vars>>

\* main, lines 90-130: a row of a dry run.
DryRunRow ==
    /\ pc = "rows"
    /\ idx <= Len(rows)
    /\ skip_writes(dry_run, overwrite)
    /\ stdout' = Append(stdout, <<"DRY RUN would generate: ", out_dir(rows[idx])>>)
    /\ idx' = idx + 1
    /\ UNCHANGED <<inputs, fs, fs_start, run, pc, rows, all_issues, created, exit_code,
                   validated, calls, written, sl_vars>>

\* main, lines 90-132: a row's metadata.yaml.
WriteMeta ==
    /\ pc = "rows"
    /\ idx <= Len(rows)
    /\ ~skip_writes(dry_run, overwrite)
    /\ LET r == write_file(fs, meta_path(rows[idx]), metadata(rows[idx]), overwrite)
       IN  /\ fs' = [files |-> r.files, dirs |-> r.dirs]
           /\ written' = IF r.wrote THEN Append(written, meta_path(rows[idx])) ELSE written
    /\ calls' = calls + 1
    /\ pc' = "md"
    /\ UNCHANGED <<inputs, validated, fs_start, run, rows, all_issues, idx, created, exit_code,
                   stdout, sl_vars>>

\* main, lines 133-134: the row's inefficiency.md, and created += 1.
WriteMd ==
    /\ pc = "md"
    /\ LET r == write_file(fs, md_path(rows[idx]), md(rows[idx]), overwrite)
       IN  /\ fs' = [files |-> r.files, dirs |-> r.dirs]
           /\ written' = IF r.wrote THEN Append(written, md_path(rows[idx])) ELSE written
    /\ calls' = calls + 1
    /\ created' = created + 1
    /\ idx' = idx + 1
    /\ pc' = "rows"
    /\ UNCHANGED <<inputs, validated, fs_start, run, rows, all_issues, exit_code, stdout, sl_vars>>

\* main, lines 136-138: the report.
Finish ==
    /\ pc = "rows"
    /\ idx > Len(rows)
    /\ stdout' = stdout \o <<<<"Done. Processed rows / Generated/updated entries: ",
                               Len(rows), created>>,
                             <<"   Tip: use --overwrite">>>>
    /\ exit_code' = <<0>>
    /\ pc' = "done"
    /\ UNCHANGED <<inputs, fs, fs_start, run, rows, all_issues, idx, created,
                   validated, calls, written, sl_vars>>

\* The generator is started again on the unchanged CSV with the same flags.
Rerun ==
    /\ pc = "done"
    /\ run = "first"
    /\ run' = "second"
    /\ fs_start' = fs
    /\ pc' = "start"
    /\ rows' = <<>>
    /\ all_issues' = <<>>
    /\ idx' = 1
    /\ created' = 0
    /\ exit_code' = <<>>
    /\ stdout' = <<>>
    /\ validated' = 0
    /\ calls' = 0
    /\ written' = <<>>
    /\ UNCHANGED <<inputs, fs, sl_vars>>

Next ==
    \/ Start
    \/ ReadCsv
    \/ ValidateRow
    \/ Gate
    \/ DryRunRow
    \/ WriteMeta
    \/ WriteMd
    \/ Finish
    \/ Rerun

Spec == Init /\ [][Next]_vars

\* ------------------------------------------------- slugify on its own
InitSlug ==
    /\ sl_in \in SlugInputs
    /\ sl_out = <<>>
    /\ sl_done = FALSE
    /\ csv_exists = FALSE
    /\ csv_text = <<>>
    /\ overwrite = FALSE
    /\ dry_run = FALSE
    /\ fs = Tree({}, {})
    /\ fs_start = fs
    /\ run = "first"
    /\ pc = "idle"
    /\ rows = <<>>
    /\ all_issues = <<>>
    /\ idx = 1
    /\ created = 0
    /\ exit_code = <<>>
    /\ stdout = <<>>
    /\ validated = 0
    /\ calls = 0
    /\ written = <<>>

CallSlugify ==
    /\ ~sl_done
    /\ sl_out' = slugify(sl_in)
    /\ sl_done' = TRUE
    /\ UNCHANGED <<sl_in, inputs, fs, fs_start, run, pc, rows, all_issues, idx, created,
                   exit_code, stdout, validated, calls, written>>

NextSlug == CallSlugify

SlugSpec == InitSlug /\ [][NextSlug]_vars

\* ------------------------------------------------------------ the claims
\* What the claims say of a row, in their own words.
Field(row, c) == IF c \in DOMAIN row THEN row[c] ELSE None
Trimmed(v) == IF v = None THEN <<>> ELSE strip(v, Whitespace)

LooksLikeCer(s) ==
    /\ Len(s) = 10
    /\ <<s[1], s[2], s[3], s[4]>> = <<"C", "E", "R", "-">>
    /\ \A k \in 5..10 : s[k] \in Digits

Offending(row) ==
    \/ \E c \in Range(REQUIRED_COLS) : Trimmed(Field(row, c)) = <<>>
    \/ /\ Trimmed(Field(row, k_cer_id)) # <<>>
       /\ ~LooksLikeCer(Trimmed(Field(row, k_cer_id)))
    \/ /\ Trimmed(Field(row, k_focus_category)) # <<>>
       /\ ~startswith(Trimmed(Field(row, k_focus_category)), focus_prefix)

\* The CSV as the claims see it: its header has every required column, and
\* its data rows as dicts.
HeaderFine ==
    /\ csv_exists
    /\ csv_text # <<>>
    /\ \A c \in Range(REQUIRED_COLS) :
          \E k \in DOMAIN csv_text[1] : strip(csv_text[1][k], Whitespace) = c

CsvRows == IF csv_text = <<>> THEN <<>> ELSE read_rows(csv_text)

SomeRowOffends == \E k \in DOMAIN CsvRows : Offending(CsvRows[k])

Returned(n) == pc = "done" /\ exit_code = <<n>>

RowsOf(e) == {k \in DOMAIN rows : out_dir(rows[k]) = e}
FirstOf(e) == CHOOSE k \in RowsOf(e) : \A j \in RowsOf(e) : k <= j
LastOf(e) == CHOOSE k \in RowsOf(e) : \A j \in RowsOf(e) : j <= k

TimesWritten(path) == Cardinality({k \in DOMAIN written : written[k] = path})

Holds(path, content) == path \in DOMAIN fs.files /\ fs.files[path] = content

\* C1: whenever the header is fine and validate_row reports an issue for some
\* row, hub/ stays as the run found it and no write_file call is made, with
\* any flags, and the run returns 1; and a write_file call is only ever made
\* after every row has been validated.
C1_AllOrNothing ==
    /\ (HeaderFine /\ \E k \in DOMAIN CsvRows :
                          validate_row(CsvRows[k], k - 1 + FirstRowNumber) # <<>>)
          => /\ fs = fs_start
             /\ calls = 0
             /\ pc = "done" => exit_code = <<1>>
    /\ calls > 0 => validated = Len(rows) /\ Len(rows) = Len(csv_text) - 1

C1_Witness ==
    /\ Returned(1)
    /\ overwrite
    /\ ~dry_run
    /\ Len(rows) = 2
    /\ validate_row(rows[1], FirstRowNumber) = <<>>
    /\ validate_row(rows[2], FirstRowNumber + 1) # <<>>
    /\ DOMAIN fs.files # {}

\* C2: main returns 2 exactly when the file is missing or the header lacks a
\* required column, and then writes nothing; 1 exactly when file and header
\* are fine and some row offends; 0 otherwise.
C2_ExitCodes ==
    pc = "done" =>
        /\ exit_code \in {<<0>>, <<1>>, <<2>>}
        /\ exit_code = <<2>> <=> ~HeaderFine
        /\ exit_code = <<1>> <=> HeaderFine /\ SomeRowOffends
        /\ exit_code = <<2>> => fs = fs_start /\ calls = 0

C2_Witness ==
    /\ Returned(2)
    /\ csv_exists
    /\ Len(csv_text) = 3
    /\ ~LooksLikeCer(Trimmed(Field(CsvRows[1], k_cer_id)))
    /\ LooksLikeCer(Trimmed(Field(CsvRows[2], k_cer_id)))
    /\ DOMAIN fs.files # {}

\* C3: without overwrite, every file that existed when the run started keeps
\* its content at every step of the run, and a run that got as far as
\* write_file returns 0.
C3_Preserved ==
    ~overwrite =>
        /\ \A p \in DOMAIN fs_start.files : Holds(p, fs_start.files[p])
        /\ pc = "done" /\ calls > 0 => exit_code = <<0>>

C3_Witness ==
    /\ Returned(0)
    /\ ~overwrite
    /\ ~dry_run
    /\ \E k \in DOMAIN rows :
          /\ md_path(rows[k]) \in DOMAIN fs_start.files
          /\ fs.files[md_path(rows[k])] = edited
          /\ edited # md(rows[k])
          /\ meta_path(rows[k]) \notin DOMAIN fs_start.files
          /\ Holds(meta_path(rows[k]), metadata(rows[k]))

\* C4: without overwrite, a second run on the unchanged CSV leaves hub/, its
\* directories and the content of every file, as the first run left it.
C4_Idempotent ==
    run = "second" /\ pc = "done" /\ ~overwrite => fs = fs_start

C4_Witness ==
    /\ run = "second"
    /\ Returned(0)
    /\ ~overwrite
    /\ ~dry_run
    /\ Len(rows) = 2
    /\ calls = 4
    /\ written = <<>>
    /\ \E k \in DOMAIN rows : Holds(md_path(rows[k]), md(rows[k]))

\* C5: after a run with overwrite that returned 0 and was no dry run, the two
\* files of every row's entry hold content rendered from the CSV, from the
\* last row of that entry, whatever they held before.
C5_Overwritten ==
    Returned(0) /\ overwrite /\ ~dry_run =>
        \A k \in DOMAIN rows :
            LET last == rows[LastOf(out_dir(rows[k]))]
            IN  /\ Holds(meta_path(rows[k]), metadata(last))
                /\ Holds(md_path(rows[k]), md(last))

C5_Witness ==
    /\ Returned(0)
    /\ overwrite
    /\ ~dry_run
    /\ \E k \in DOMAIN rows :
          /\ md_path(rows[k]) \in DOMAIN fs_start.files
          /\ fs_start.files[md_path(rows[k])] = edited
          /\ Holds(md_path(rows[k]), md(rows[k]))
          /\ md(rows[k]) # edited

\* C6: a dry run never changes hub/ and never calls write_file, with or
\* without overwrite; when the CSV passes validation it returns 0 and has
\* printed hub/<provider slug>/<focus slug>/<service slug>/<cer_id> once per
\* row, in row order.
C6_DryRun ==
    dry_run =>
        /\ fs = fs_start
        /\ calls = 0
        /\ pc = "done" /\ HeaderFine /\ ~SomeRowOffends =>
              /\ exit_code = <<0>>
              /\ SelectSeq(stdout, LAMBDA l : l[1] = "DRY RUN would generate: ")
                 = [k \in 1..(Len(csv_text) - 1) |->
                       <<"DRY RUN would generate: ",
                         <<"hub", slugify(CsvRows[k][k_cloud_provider]),
                           slugify(CsvRows[k][k_focus_category]),
                           slugify(CsvRows[k][k_service]),
                           Trimmed(CsvRows[k][k_cer_id])>>>>]

C6_Witness ==
    /\ Returned(0)
    /\ dry_run
    /\ overwrite
    /\ Len(rows) = 2
    /\ out_dir(rows[1]) # out_dir(rows[2])
    /\ Len(stdout) = 4
    /\ DOMAIN fs.files # {}
    /\ \E k \in DOMAIN rows : md_path(rows[k]) \in DOMAIN fs.files

\* C7: a run that passed validation reports the number of CSV rows as rows
\* processed and, as entries generated/updated, the number of entries the
\* run created or updated.
C7_ReportedCounts ==
    Returned(0) =>
        \E k \in DOMAIN stdout :
            stdout[k] = <<"Done. Processed rows / Generated/updated entries: ",
                          Len(csv_text) - 1,
                          Cardinality({SubSeq(written[j], 1, 5) : j \in DOMAIN written})>>

\* C8: the row numbers the issues name are exactly the numbers (from 2) of the
\* offending rows among those validated so far, and once the loop is over
\* every row of the CSV has been validated.
C8_FlagsOffendingRows ==
    /\ \A k \in DOMAIN all_issues : all_issues[k][1] = "Row "
    /\ {all_issues[k][2] : k \in DOMAIN all_issues}
       = {k - 1 + 2 : k \in {j \in 1..validated : Offending(rows[j])}}
    /\ pc \in {"rows", "md", "done"} /\ HeaderFine => validated = Len(csv_text) - 1

C8_Witness ==
    /\ Returned(1)
    /\ Len(rows) = 2
    /\ ~Offending(rows[1])
    /\ Offending(rows[2])
    /\ Len(Trimmed(Field(rows[2], k_cer_id))) = 11
    /\ {all_issues[k][2] : k \in DOMAIN all_issues} = {3}

\* C9 as stated: the slug is non-empty, made of [a-z0-9] and underscores, has
\* no underscore at either end and no two in a row, and is "unknown" when the
\* argument is None, empty, blank or without any ASCII letter or digit.
AsciiAlnum == Range(LowerLetters) \cup Range(UpperLetters) \cup Digits

SlugShape(t) ==
    /\ t # <<>>
    /\ Range(t) \subseteq SlugChars \cup {"_"}
    /\ t[1] # "_"
    /\ t[Len(t)] # "_"
    /\ \A k \in 1..(Len(t) - 1) : ~(t[k] = "_" /\ t[k + 1] = "_")

C9_AsStated ==
    sl_done =>
        /\ SlugShape(sl_out)
        /\ (sl_in = None \/ Range(sl_in) \cap AsciiAlnum = {}) => sl_out = unknown

\* C9, amended: the same shape, and "unknown" when the argument is None,
\* empty, blank or without any ASCII letter or digit and without KELVIN SIGN
\* (U+212A) and LATIN CAPITAL LETTER I WITH DOT ABOVE (U+0130), the two
\* characters that are not ASCII and have an ASCII letter in their lowercase.
C9_SlugShape ==
    sl_done =>
        /\ SlugShape(sl_out)
        /\ (sl_in = None \/ Range(sl_in) \cap (AsciiAlnum \cup {"U+212A", "U+0130"}) = {})
              => sl_out = unknown

C9_Witness ==
    /\ sl_done
    /\ sl_out = unknown
    /\ sl_in # None
    /\ Len(sl_in) = 3
    /\ "U+00E9" \in Range(sl_in)
    /\ "_" \in Range(sl_in)

\* C10: after a run that returned 0, was no dry run and started on an empty
\* hub/, the two files of an entry are rendered from the first row of that
\* entry and written once when overwrite is off, and rendered from its last
\* row and written once per row of the entry when overwrite is on.
C10_Collisions ==
    Returned(0) /\ ~dry_run /\ DOMAIN fs_start.files = {} =>
        \A k \in DOMAIN rows :
            LET e == out_dir(rows[k])
                from == rows[IF overwrite THEN LastOf(e) ELSE FirstOf(e)]
                times == IF overwrite THEN Cardinality(RowsOf(e)) ELSE 1
            IN  /\ Holds(meta_path(rows[k]), metadata(from))
                /\ Holds(md_path(rows[k]), md(from))
                /\ TimesWritten(meta_path(rows[k])) = times
                /\ TimesWritten(md_path(rows[k])) = times

C10_Witness ==
    /\ Returned(0)
    /\ ~dry_run
    /\ overwrite
    /\ DOMAIN fs_start.files = {}
    /\ Len(rows) = 2
    /\ out_dir(rows[1]) = out_dir(rows[2])
    /\ rows[1][k_cloud_provider] # rows[2][k_cloud_provider]
    /\ md(rows[1]) # md(rows[2])
    /\ Holds(md_path(rows[1]), md(rows[2]))
    /\ TimesWritten(md_path(rows[1])) = 2

====
